---- MODULE Spec2Model ----
(***************************************************************************)
(* Rhythonika: the lookahead scheduler / transport of js/rhythonika.js     *)
(* (the current version, with the Soundonika CDN loader, and the earlier   *)
(* AudioEngine version) as a state machine.                                *)
(*                                                                         *)
(* Time is the audio clock (audioContext.currentTime) counted in units of  *)
(* 1/480 s, so that every slot and tick duration of the catalogued         *)
(* patterns at the modelled tempi is a whole number and the additions the  *)
(* code makes are exact.  JavaScript runs every handler to completion, so  *)
(* each handler is one action; the poll's while loop is unrolled one       *)
(* iteration per step under pc = "polling", during which no other handler  *)
(* is enabled.                                                             *)
(***************************************************************************)
EXTENDS Integers, Sequences, FiniteSets, TLC

\* ------------------------------------------------------------ constants
\* audioContext.currentTime + 0.05 (0.05 s = 24 units)
LEAD_IN == 24
\* this.scheduleAheadTime = 0.1 (0.1 s = 48 units)
scheduleAheadTime == 48
\* this.lookahead = 25.0 ms (12 units)
lookahead == 12
\* 60.0 (seconds per minute) in units
UnitsPerMinute == 28800
\* the <input min="20" max="400"> clamp of the bpm handler
BpmMin == 20
BpmMax == 400
\* Number(...) || 120
BpmDefault == 120

\* --------------------------------------------------------------- bounds
\* events of the environment in one run: calls of start, stop and destroy,
\* change events of the three controls, advances of the audio clock, and
\* scheduleSound calls that throw
MaxOps == 3
\* length, in seconds, of the host stall of the catch-up scenario
StallSeconds == 5
\* the largest burst a catch-up cap is allowed to let through in one poll
CatchUpCap == 16
\* the largest count of a grid of a polyrhythm examined on its own
MaxCount == 6
\* the iterations of a poll's loop that are followed when the step duration
\* is not positive and the loop therefore never leaves
MaxSpin == 8
\* the sample-loading passes of the AudioEngine that are followed
MaxPasses == 2
\* the calls made on the AudioEngine (init, setSoundMode, loadSamples,
\* scheduleSound) that are followed
MaxEngineOps == 2

\* ------------------------------------------------------------- catalog
\* the object the constructor assigns to this.patterns
catalog ==
    ("basic" :> [kind |-> "grid", slotsPerBar |-> 4,
                 accents |-> <<1,0,0,0>>])
 @@ ("accent-332" :> [kind |-> "grid", slotsPerBar |-> 8,
                 accents |-> <<1,0,0, 1,0,0, 1,0>>])
 @@ ("accent-323" :> [kind |-> "grid", slotsPerBar |-> 8,
                 accents |-> <<1,0,0, 1,0, 1,0,0>>])
 @@ ("accent-223" :> [kind |-> "grid", slotsPerBar |-> 8,
                 accents |-> <<1,0, 1,0, 1,0,0,0>>])
 @@ ("triplet-mix" :> [kind |-> "grid", slotsPerBar |-> 12,
                 accents |-> <<1,0,0, 0,1,0, 0,0,1, 0,0,0>>])
 @@ ("polyrhythm-32" :> [kind |-> "poly",
                 gridA |-> [count |-> 2, gain |-> 28],
                 gridB |-> [count |-> 3, gain |-> 20]])

\* a pattern object is usable by _scheduleNext: a grid has at least one slot
\* and one accent flag per slot, a polyrhythm has two counts of at least 1
wellFormed(p) ==
    IF p.kind = "grid"
    THEN p.slotsPerBar >= 1 /\ Len(p.accents) = p.slotsPerBar
    ELSE p.gridA.count >= 1 /\ p.gridB.count >= 1

\* the <option>s of the pattern <select>
PatternOptions ==
    {"basic", "accent-332", "accent-323", "accent-223", "triplet-mix",
     "polyrhythm-32"}

\* the <option>s of the time-signature <select>
TimesigOptions ==
    { [numerator |-> 4, denominator |-> 4],
      [numerator |-> 3, denominator |-> 4],
      [numerator |-> 6, denominator |-> 8],
      [numerator |-> 5, denominator |-> 4] }

\* the denominators a time signature can have
Denominators == { sig.denominator : sig \in TimesigOptions }

\* values the bpm <input> can hold when its change event fires: not a number
\* (empty), zero, negative, below the range, inside it, above it
BpmInputs ==
    { [nan |-> TRUE,  val |-> 0],
      [nan |-> FALSE, val |-> 0],
      [nan |-> FALSE, val |-> -60],
      [nan |-> FALSE, val |-> 5],
      [nan |-> FALSE, val |-> 120],
      [nan |-> FALSE, val |-> 400],
      [nan |-> FALSE, val |-> 1000] }

soundTypes ==
    [accent |-> "kick", normal |-> "hihat_closed",
     polyA |-> "kick", polyB |-> "snare"]

\* the literals of the earlier version's _scheduleNext
soundTypesV1 ==
    [accent |-> "accent", normal |-> "normal",
     polyA |-> "kick", polyB |-> "snare"]

\* ------------------------------------------------------- pure functions
Max(a, b) == IF a >= b THEN a ELSE b
Min(a, b) == IF a <= b THEN a ELSE b
Abs(a) == IF a < 0 THEN -a ELSE a

RECURSIVE gcd(_, _)
gcd(x, y) == IF y = 0 THEN x ELSE gcd(y, x % y)

\* variant: the product, not divided by the gcd
_lcm_product(a, b) == Abs(a * b)

_lcm(a, b) == Abs(a * b) \div gcd(a, b)

\* Math.max(20, Math.min(400, Number(value) || 120))
clampBpm(v) ==
    Max(BpmMin, Min(BpmMax, IF v.nan \/ v.val = 0 THEN BpmDefault ELSE v.val))

\* the modulus currentStep is reduced by in _scheduleNext
modulus(pat) ==
    IF pat.kind = "grid" THEN pat.slotsPerBar
    ELSE _lcm(pat.gridA.count, pat.gridB.count)

\* variant: a beat is a quarter note, so the bar lasts numerator * 4 /
\* denominator beats
stepDur_quarterNoteBeats(pat, sig, tempo) ==
    (sig.numerator * 4 * UnitsPerMinute)
       \div (sig.denominator * modulus(pat) * tempo)

\* variant: the bar is taken to be one beat long, whatever the numerator
stepDur_perBeat(pat, sig, tempo) ==
    UnitsPerMinute \div (modulus(pat) * tempo)

\* slotDur = (beatsPerBar / slotsPerBar) * secondsPerBeat, and
\* tickDur = (beatsPerBar * secondsPerBeat) / lcmTicks
stepDur(pat, sig, tempo) ==
    (sig.numerator * UnitsPerMinute) \div (modulus(pat) * tempo)

\* whether the division above is exact (the model's time unit is fine enough)
stepDurExact(pat, sig, tempo) ==
    (sig.numerator * UnitsPerMinute) % (modulus(pat) * tempo) = 0

\* variant: the accent is read from the slot after the current one
plannedCalls_accentNextSlot(pat, step, time, types) ==
    IF pat.kind = "grid"
    THEN LET isAccent == pat.accents[((step + 1) % pat.slotsPerBar) + 1] # 0
         IN  << [t |-> time, step |-> step,
                 kind |-> IF isAccent THEN "accent" ELSE "normal",
                 sound |-> IF isAccent THEN types.accent ELSE types.normal,
                 vel |-> IF isAccent THEN [num |-> 10, den |-> 10]
                                     ELSE [num |-> 7, den |-> 10]] >>
    ELSE LET lcmTicks == _lcm(pat.gridA.count, pat.gridB.count)
             tick == step % lcmTicks
             a == IF tick % (lcmTicks \div pat.gridA.count) = 0
                  THEN << [t |-> time, step |-> step, kind |-> "polyA",
                           sound |-> types.polyA,
                           vel |-> [num |-> pat.gridA.gain, den |-> 28]] >>
                  ELSE << >>
             b == IF tick % (lcmTicks \div pat.gridB.count) = 0
                  THEN << [t |-> time, step |-> step, kind |-> "polyB",
                           sound |-> types.polyB,
                           vel |-> [num |-> pat.gridB.gain, den |-> 28]] >>
                  ELSE << >>
         IN  a \o b

\* variant: a grid fires on the ticks that are multiples of its count
plannedCalls_strideIsCount(pat, step, time, types) ==
    IF pat.kind = "grid"
    THEN LET isAccent == pat.accents[(step % pat.slotsPerBar) + 1] # 0
         IN  << [t |-> time, step |-> step,
                 kind |-> IF isAccent THEN "accent" ELSE "normal",
                 sound |-> IF isAccent THEN types.accent ELSE types.normal,
                 vel |-> IF isAccent THEN [num |-> 10, den |-> 10]
                                     ELSE [num |-> 7, den |-> 10]] >>
    ELSE LET lcmTicks == _lcm(pat.gridA.count, pat.gridB.count)
             tick == step % lcmTicks
             a == IF tick % pat.gridA.count = 0
                  THEN << [t |-> time, step |-> step, kind |-> "polyA",
                           sound |-> types.polyA,
                           vel |-> [num |-> pat.gridA.gain, den |-> 28]] >>
                  ELSE << >>
             b == IF tick % pat.gridB.count = 0
                  THEN << [t |-> time, step |-> step, kind |-> "polyB",
                           sound |-> types.polyB,
                           vel |-> [num |-> pat.gridB.gain, den |-> 28]] >>
                  ELSE << >>
         IN  a \o b

\* variant: the ticks of the polyrhythm are numbered from 1
plannedCalls_tickFromOne(pat, step, time, types) ==
    IF pat.kind = "grid"
    THEN LET isAccent == pat.accents[(step % pat.slotsPerBar) + 1] # 0
         IN  << [t |-> time, step |-> step,
                 kind |-> IF isAccent THEN "accent" ELSE "normal",
                 sound |-> IF isAccent THEN types.accent ELSE types.normal,
                 vel |-> IF isAccent THEN [num |-> 10, den |-> 10]
                                     ELSE [num |-> 7, den |-> 10]] >>
    ELSE LET lcmTicks == _lcm(pat.gridA.count, pat.gridB.count)
             tick == (step % lcmTicks) + 1
             a == IF tick % (lcmTicks \div pat.gridA.count) = 0
                  THEN << [t |-> time, step |-> step, kind |-> "polyA",
                           sound |-> types.polyA,
                           vel |-> [num |-> pat.gridA.gain, den |-> 28]] >>
                  ELSE << >>
             b == IF tick % (lcmTicks \div pat.gridB.count) = 0
                  THEN << [t |-> time, step |-> step, kind |-> "polyB",
                           sound |-> types.polyB,
                           vel |-> [num |-> pat.gridB.gain, den |-> 28]] >>
                  ELSE << >>
         IN  a \o b

\* variant: each grid of the polyrhythm is tested with the other grid's count
plannedCalls_gridsSwapped(pat, step, time, types) ==
    IF pat.kind = "grid"
    THEN LET isAccent == pat.accents[(step % pat.slotsPerBar) + 1] # 0
         IN  << [t |-> time, step |-> step,
                 kind |-> IF isAccent THEN "accent" ELSE "normal",
                 sound |-> IF isAccent THEN types.accent ELSE types.normal,
                 vel |-> IF isAccent THEN [num |-> 10, den |-> 10]
                                     ELSE [num |-> 7, den |-> 10]] >>
    ELSE LET lcmTicks == _lcm(pat.gridA.count, pat.gridB.count)
             tick == step % lcmTicks
             a == IF tick % (lcmTicks \div pat.gridB.count) = 0
                  THEN << [t |-> time, step |-> step, kind |-> "polyA",
                           sound |-> types.polyA,
                           vel |-> [num |-> pat.gridA.gain, den |-> 28]] >>
                  ELSE << >>
             b == IF tick % (lcmTicks \div pat.gridA.count) = 0
                  THEN << [t |-> time, step |-> step, kind |-> "polyB",
                           sound |-> types.polyB,
                           vel |-> [num |-> pat.gridB.gain, den |-> 28]] >>
                  ELSE << >>
         IN  a \o b

\* variant: the gains of the polyrhythm are divided by the smaller gain, 0.20
plannedCalls_divideBySmallerGain(pat, step, time, types) ==
    IF pat.kind = "grid"
    THEN LET isAccent == pat.accents[(step % pat.slotsPerBar) + 1] # 0
         IN  << [t |-> time, step |-> step,
                 kind |-> IF isAccent THEN "accent" ELSE "normal",
                 sound |-> IF isAccent THEN types.accent ELSE types.normal,
                 vel |-> IF isAccent THEN [num |-> 10, den |-> 10]
                                     ELSE [num |-> 7, den |-> 10]] >>
    ELSE LET lcmTicks == _lcm(pat.gridA.count, pat.gridB.count)
             tick == step % lcmTicks
             a == IF tick % (lcmTicks \div pat.gridA.count) = 0
                  THEN << [t |-> time, step |-> step, kind |-> "polyA",
                           sound |-> types.polyA,
                           vel |-> [num |-> pat.gridA.gain, den |-> 20]] >>
                  ELSE << >>
             b == IF tick % (lcmTicks \div pat.gridB.count) = 0
                  THEN << [t |-> time, step |-> step, kind |-> "polyB",
                           sound |-> types.polyB,
                           vel |-> [num |-> pat.gridB.gain, den |-> 20]] >>
                  ELSE << >>
         IN  a \o b

\* the scheduleSound calls _scheduleNext plans for one step, in call order
plannedCalls(pat, step, time, types) ==
    IF pat.kind = "grid"
    THEN LET isAccent == pat.accents[(step % pat.slotsPerBar) + 1] # 0
         IN  << [t |-> time, step |-> step,
                 kind |-> IF isAccent THEN "accent" ELSE "normal",
                 sound |-> IF isAccent THEN types.accent ELSE types.normal,
                 vel |-> IF isAccent THEN [num |-> 10, den |-> 10]
                                     ELSE [num |-> 7, den |-> 10]] >>
    ELSE LET lcmTicks == _lcm(pat.gridA.count, pat.gridB.count)
             tick == step % lcmTicks
             a == IF tick % (lcmTicks \div pat.gridA.count) = 0
                  THEN << [t |-> time, step |-> step, kind |-> "polyA",
                           sound |-> types.polyA,
                           vel |-> [num |-> pat.gridA.gain, den |-> 28]] >>
                  ELSE << >>
             b == IF tick % (lcmTicks \div pat.gridB.count) = 0
                  THEN << [t |-> time, step |-> step, kind |-> "polyB",
                           sound |-> types.polyB,
                           vel |-> [num |-> pat.gridB.gain, den |-> 28]] >>
                  ELSE << >>
         IN  a \o b

\* _mapSoundTypeToSample: the sample type a sound type is played with
_mapSoundTypeToSample(soundType) ==
    CASE soundType \in {"accent", "kick"} -> "kick"
      [] soundType = "snare" -> "snare"
      [] soundType \in {"hihat", "hihat_closed"} -> "hihat_closed"
      [] soundType = "hihat_open" -> "hihat_open"
      [] soundType = "perc" -> "perc"
      [] soundType = "shaker" -> "shaker"
      [] OTHER -> "hihat_closed"

\* ---------------------------------------------------------------- state
VARIABLES
    \* fields of the Rhythonika object
    isPlaying, bpm, timeSignature, currentStep, intervalId, audioContext,
    audioEngine, nextNoteTime, selectedPatternKey,
    \* window.Soundonika is defined
    Soundonika,
    \* start() calls suspended at an await: how many at each await
    pending,
    \* audioContext.currentTime
    clock,
    \* the host's interval timers: live handles, handles whose tick is queued,
    \* the next handle setInterval returns
    timers, due, nextTimer,
    \* the running _scheduler call: "idle" | "polling", its now, its timer
    pc, now, ticking,
    \* history: the last handler run and what it found; of the last reprime,
    \* the handler, the clock, the step before and after; since that reprime,
    \* the steps processed, the scheduleSound calls made (each with the number
    \* of its step) and the planned calls not made; whether a call was made
    \* twice; the latest time of any call made so far in the run (0 before
    \* the first); calls made by the running poll; the timers that were live
    \* when stop() ran
    last, primeOp, primeTime, primeFrom, primeStep, visits, log, skipped,
    dup, sentMax, pollCount, stopped,
    \* the events of the environment so far
    ops,
    \* a polyrhythm examined on its own, apart from the transport: the counts
    \* of its two grids, the tick processed last, the calls planned for it,
    \* and the ticks of the current cycle at which each grid has fired
    countA, countB, tick, fired, ticksA, ticksB,
    \* fields of the AudioEngine object (samples: the keys of the Map)
    soundMode, samples, isLoading, loadingPromise,
    \* the promises the _loadSamplesInternal calls returned, by the number of
    \* the pass; of each pass in flight, the state of the load of each sample;
    \* the number the next pass gets
    promises, loads, nextPass,
    \* history: what the last loadSamples() call found and did; the last
    \* scheduleSound call and what was rendered for it; the calls so far
    lastLoad, rendered, engineOps,
    \* this.patterns, the catalog
    patterns,
    \* history: the transport command issued last ("start", "stop",
    \* "destroy"; "none" before the first)
    command

vars ==
    << isPlaying, bpm, timeSignature, currentStep, intervalId, audioContext,
       audioEngine, nextNoteTime, selectedPatternKey, Soundonika, pending,
       clock, timers, due, nextTimer, pc, now, ticking,
       last, primeOp, primeTime, primeFrom, primeStep, visits, log, skipped,
       dup, sentMax, pollCount, stopped,
       ops, countA, countB, tick, fired, ticksA, ticksB,
       soundMode, samples, isLoading, loadingPromise, promises, loads,
       nextPass, lastLoad, rendered, engineOps, patterns, command >>

params == << bpm, timeSignature, selectedPatternKey >>
cursor == << currentStep, nextNoteTime >>
audio == << audioContext, audioEngine, Soundonika >>
host == << timers, due, nextTimer, intervalId >>
poll == << pc, now, ticking, pollCount >>
epoch == << primeOp, primeTime, primeFrom, primeStep, visits, log, skipped >>
budget == << ops >>
polyrhythm == << countA, countB, tick, fired, ticksA, ticksB >>
engine ==
    << soundMode, samples, isLoading, loadingPromise, promises, loads,
       nextPass, lastLoad, rendered, engineOps >>
examined == << polyrhythm, engine >>
transport ==
    << isPlaying, params, cursor, audio, pending, clock, host, poll, last,
       epoch, dup, sentMax, stopped, budget, patterns, command >>

pat == patterns[selectedPatternKey]

UnitsPerSecond == UnitsPerMinute \div 60

\* the amounts the audio clock moves between two handlers: one timer period,
\* a late tick, one timer period short of half a second (the beat at the
\* default tempo), a host stall
ClockSteps ==
    { lookahead, 5 * lookahead, UnitsPerSecond \div 2 - lookahead,
      StallSeconds * UnitsPerSecond }

NoPending == [load |-> 0, detect |-> 0, init |-> 0]
nPending == pending.load + pending.detect + pending.init

\* what a handler records of the state it found
Did(op) ==
    last' = [op |-> op, playing |-> isPlaying, due |-> due # {}]

\* ----------------------------------------------------------------- Init
\* Number(localStorage.getItem("rhyth_bpm")) || 120: no clamp; a missing
\* item is null, and Number(null) is 0
storedBpm(item) == IF item.nan \/ item.val = 0 THEN BpmDefault ELSE item.val

\* localStorage.getItem("rhyth_pattern") || "basic": a missing item is null,
\* rendered here as the empty string, which is falsy too
storedPattern(item) == IF item = "" THEN "basic" ELSE item

\* JSON.parse(localStorage.getItem("rhyth_timesig") || default): whatever
\* object the item holds is taken as it is
storedTimesig(item) ==
    IF item.none
    THEN [numerator |-> 4, denominator |-> 4]
    ELSE [numerator |-> item.numerator, denominator |-> item.denominator]

\* no "rhyth_timesig" item
NoTimesigItem == [none |-> TRUE, numerator |-> 0, denominator |-> 0]

\* the constructor, given the stored items it reads without validation
constructor(bpmItem, patternItem, sigItem) ==
    /\ patterns = catalog
    /\ command = "none"
    /\ isPlaying = FALSE
    /\ bpm = storedBpm(bpmItem)
    /\ timeSignature = storedTimesig(sigItem)
    /\ currentStep = 0
    /\ intervalId = 0
    /\ audioContext = "none"
    /\ audioEngine = "null"
    /\ nextNoteTime = 0
    /\ selectedPatternKey = storedPattern(patternItem)
    /\ Soundonika \in BOOLEAN
    /\ pending = NoPending
    /\ clock = 0
    /\ timers = {}
    /\ due = {}
    /\ nextTimer = 1
    /\ pc = "idle"
    /\ now = 0
    /\ ticking = 0
    /\ last = [op |-> "constructor", playing |-> FALSE, due |-> FALSE]
    /\ primeOp = "none"
    /\ primeFrom = 0
    /\ skipped = 0
    /\ primeTime = 0
    /\ primeStep = 0
    /\ visits = 0
    /\ log = {}
    /\ dup = FALSE
    /\ sentMax = 0
    /\ pollCount = 0
    /\ stopped = {}
    /\ ops = 0

\* the keys of sampleConfig
SampleTypes ==
    {"kick", "snare", "hihat_closed", "hihat_open", "perc", "shaker"}

\* the numbers of the sample-loading passes followed
Passes == 1 .. MaxPasses

\* localStorage.getItem('rhyth_sound_mode') || 'clicks': a missing item is
\* null, rendered here as the empty string, which is falsy too
storedSoundMode(item) == IF item = "" THEN "clicks" ELSE item

\* no loadSamples() call yet
NoLoad == [busy |-> FALSE, started |-> 0, returned |-> 0, inFlight |-> 0]

\* no scheduleSound call yet
NoSound ==
    [time |-> 0, soundType |-> "", velocity |-> 0, mode |-> "",
     buffer |-> FALSE, out |-> << >>]

\* the AudioEngine constructor, given the stored sound mode
AudioEngine(modeItem) ==
    /\ soundMode = storedSoundMode(modeItem)
    /\ samples = {}
    /\ isLoading = FALSE
    /\ loadingPromise = 0
    /\ promises = [p \in Passes |-> "none"]
    /\ loads = [p \in Passes |-> [t \in SampleTypes |-> "idle"]]
    /\ nextPass = 1
    /\ lastLoad = NoLoad
    /\ rendered = NoSound
    /\ engineOps = 0

\* nothing is examined apart from the transport
notExamined ==
    /\ AudioEngine("")
    /\ countA = patterns["polyrhythm-32"].gridA.count
    /\ countB = patterns["polyrhythm-32"].gridB.count
    /\ tick = -1
    /\ fired = << >>
    /\ ticksA = {}
    /\ ticksB = {}

\* the constructor, with the preferences this program stores (or none)
Init ==
    /\ constructor([nan |-> FALSE, val |-> 0], "", NoTimesigItem)
    /\ notExamined

\* ------------------------------------------------------------ transport
\* variant: the timer is restarted but nextNoteTime is not set again
reprimeClock_keepsTime ==
    /\ timers' = (timers \ {intervalId}) \cup {nextTimer}
    /\ due' = due \ {intervalId}
    /\ nextNoteTime' = nextNoteTime
    /\ intervalId' = nextTimer
    /\ nextTimer' = nextTimer + 1

\* variant: _reprimeClock without the clearInterval
reprimeClock_noClear ==
    /\ timers' = timers \cup {nextTimer}
    /\ due' = due
    /\ nextNoteTime' = clock + LEAD_IN
    /\ intervalId' = nextTimer
    /\ nextTimer' = nextTimer + 1

\* _reprimeClock: clearInterval(intervalId); nextNoteTime; setInterval
reprimeClock ==
    /\ timers' = (timers \ {intervalId}) \cup {nextTimer}
    /\ due' = due \ {intervalId}
    /\ nextNoteTime' = clock + LEAD_IN
    /\ intervalId' = nextTimer
    /\ nextTimer' = nextTimer + 1

\* a reprime opens a new stream of events
newEpoch(op) ==
    /\ primeOp' = op
    /\ primeTime' = clock
    /\ primeFrom' = currentStep
    /\ primeStep' = currentStep'
    /\ visits' = 0
    /\ log' = {}
    /\ skipped' = 0

\* variant: stop() without the clearInterval
stop_keepsTimer ==
    /\ isPlaying' = FALSE
    /\ UNCHANGED << timers, due, intervalId, nextTimer >>

\* stop(): isPlaying = false; if (intervalId) clearInterval(intervalId)
stop ==
    /\ isPlaying' = FALSE
    /\ timers' = timers \ {intervalId}
    /\ due' = due \ {intervalId}
    /\ UNCHANGED << intervalId, nextTimer >>

\* variant: start() without this.currentStep = 0
enterPlaying_keepsStep ==
    /\ isPlaying' = TRUE
    /\ UNCHANGED currentStep
    /\ reprimeClock
    /\ newEpoch("start")
    /\ Did("start")

\* start(), lines 377-392: the synchronous tail that enters Playing
enterPlaying ==
    /\ isPlaying' = TRUE
    /\ currentStep' = 0
    /\ reprimeClock
    /\ newEpoch("start")
    /\ Did("start")

\* start() from line 350 on, run by a call that leaves `rest` suspended;
\* r is what the two constructors do
startBody(rest, r) ==
    IF audioContext = "none"
    THEN /\ CASE r = "ctxThrows" ->
                   /\ pending' = rest
                   /\ Did("startFailed")
                   /\ UNCHANGED << audioContext, audioEngine >>
              [] r = "engineThrows" ->
                   /\ audioContext' = "running"
                   /\ pending' = rest
                   /\ Did("startFailed")
                   /\ UNCHANGED audioEngine
              [] OTHER ->
                   /\ audioContext' = "running"
                   /\ audioEngine' = "new"
                   /\ pending' = [rest EXCEPT !.detect = @ + 1]
                   /\ Did("startAwait")
         /\ UNCHANGED << isPlaying, cursor, host, epoch >>
    ELSE /\ r = "ok"
         /\ enterPlaying
         /\ pending' = rest
         /\ UNCHANGED << audioContext, audioEngine >>

\* a call of start(): suspends at _loadSoundonika, or runs on
startCall(r) ==
    /\ pc = "idle"
    /\ ops < MaxOps
    /\ ops' = ops + 1
    /\ IF ~Soundonika
       THEN /\ r = "ok"
            /\ pending' = [pending EXCEPT !.load = @ + 1]
            /\ Did("startAwait")
            /\ UNCHANGED << isPlaying, cursor, audioContext, audioEngine,
                            host, epoch >>
       ELSE startBody(pending, r)
    /\ UNCHANGED << params, Soundonika, clock, poll, dup, sentMax, stopped >>
    /\ command' = "start"
    /\ UNCHANGED << examined, patterns >>

\* the script's onload / onerror resumes a start() at line 346
resumeLoad(r) ==
    /\ pc = "idle"
    /\ pending.load > 0
    /\ IF r = "loadFails"
       THEN /\ pending' = [pending EXCEPT !.load = @ - 1]
            /\ Did("startFailed")
            /\ UNCHANGED << isPlaying, cursor, audio, host, epoch >>
       ELSE /\ Soundonika' = TRUE
            /\ startBody([pending EXCEPT !.load = @ - 1], r)
    /\ UNCHANGED << params, clock, poll, dup, sentMax, stopped, budget >>
    /\ UNCHANGED << examined, patterns, command >>

\* _detectSamplePath settles (found or not, the error is caught): lines
\* 358-373; this.audioEngine.init() throws a TypeError when destroy() has
\* dropped the engine
resumeDetect ==
    /\ pc = "idle"
    /\ pending.detect > 0
    /\ IF audioEngine = "null"
       THEN /\ pending' = [pending EXCEPT !.detect = @ - 1]
            /\ Did("startFailed")
       ELSE /\ pending' = [pending EXCEPT !.detect = @ - 1, !.init = @ + 1]
            /\ Did("startAwait")
    /\ UNCHANGED << isPlaying, params, cursor, audio, host, clock, poll,
                    epoch, dup, sentMax, stopped, budget >>
    /\ UNCHANGED << examined, patterns, command >>

\* audioEngine.init() settles: lines 373-392
resumeInit(ok) ==
    /\ pc = "idle"
    /\ pending.init > 0
    /\ IF ok
       THEN /\ enterPlaying
            /\ pending' = [pending EXCEPT !.init = @ - 1]
            /\ audioEngine' = IF audioEngine = "new" THEN "ready"
                              ELSE audioEngine
            /\ UNCHANGED << audioContext, Soundonika >>
       ELSE /\ pending' = [pending EXCEPT !.init = @ - 1]
            /\ Did("startFailed")
            /\ UNCHANGED << isPlaying, cursor, audio, host, epoch >>
    /\ UNCHANGED << params, clock, poll, dup, sentMax, stopped, budget >>
    /\ UNCHANGED << examined, patterns, command >>

\* a call of stop()
stopCall ==
    /\ pc = "idle"
    /\ ops < MaxOps
    /\ ops' = ops + 1
    /\ stop
    /\ stopped' = stopped \cup timers
    /\ Did("stop")
    /\ UNCHANGED << params, cursor, audio, pending, clock, poll, epoch, dup,
                    sentMax >>
    /\ command' = "stop"
    /\ UNCHANGED << examined, patterns >>

\* destroy(): stop(); audioEngine = null; audioContext.close()
destroy ==
    /\ pc = "idle"
    /\ ops < MaxOps
    /\ ops' = ops + 1
    /\ stop
    /\ stopped' = stopped \cup timers
    /\ audioEngine' = "null"
    /\ audioContext' = IF audioContext = "none" THEN "none" ELSE "closed"
    /\ Did("destroy")
    /\ UNCHANGED << params, cursor, Soundonika, pending, clock, poll, epoch,
                    dup, sentMax >>
    /\ command' = "destroy"
    /\ UNCHANGED << examined, patterns >>

\* ------------------------------------------------------------- setters
\* the bpm <input>'s change handler
onBpmChange(v) ==
    /\ pc = "idle"
    /\ ops < MaxOps
    /\ bpm' = clampBpm(v)
    /\ UNCHANGED currentStep
    /\ IF isPlaying
       THEN reprimeClock /\ newEpoch("bpm")
       ELSE UNCHANGED << nextNoteTime, host, epoch >>
    /\ ops' = ops + 1
    /\ Did("bpm")
    /\ UNCHANGED << isPlaying, timeSignature, selectedPatternKey, audio,
                    pending, clock, poll, dup, sentMax, stopped >>
    /\ UNCHANGED << examined, patterns, command >>

\* variant: the handler also resizes the "basic" grid to the new numerator
onTimesigChange_resizesGrid(sig) ==
    /\ pc = "idle"
    /\ ops < MaxOps
    /\ timeSignature' = sig
    /\ currentStep' = 0
    /\ patterns' = [patterns EXCEPT !["basic"].slotsPerBar = sig.numerator]
    /\ IF isPlaying
       THEN reprimeClock /\ newEpoch("timesig")
       ELSE UNCHANGED << nextNoteTime, host, epoch >>
    /\ ops' = ops + 1
    /\ Did("timesig")
    /\ UNCHANGED << isPlaying, bpm, selectedPatternKey, audio,
                    pending, clock, poll, dup, sentMax, stopped >>
    /\ UNCHANGED << examined, command >>

\* the time-signature <select>'s change handler
onTimesigChange(sig) ==
    /\ pc = "idle"
    /\ ops < MaxOps
    /\ timeSignature' = sig
    /\ currentStep' = 0
    /\ IF isPlaying
       THEN reprimeClock /\ newEpoch("timesig")
       ELSE UNCHANGED << nextNoteTime, host, epoch >>
    /\ ops' = ops + 1
    /\ Did("timesig")
    /\ UNCHANGED << isPlaying, bpm, selectedPatternKey, audio,
                    pending, clock, poll, dup, sentMax, stopped >>
    /\ UNCHANGED << examined, patterns, command >>

\* variant: the pattern handler reprimes whether Playing or not
onPatternChange_alwaysReprimes(key) ==
    /\ pc = "idle"
    /\ ops < MaxOps
    /\ selectedPatternKey' = key
    /\ currentStep' = 0
    /\ reprimeClock /\ newEpoch("pattern")
    /\ ops' = ops + 1
    /\ Did("pattern")
    /\ UNCHANGED << isPlaying, bpm, timeSignature, audio,
                    pending, clock, poll, dup, sentMax, stopped >>
    /\ UNCHANGED << examined, patterns, command >>

\* the pattern <select>'s change handler
onPatternChange(key) ==
    /\ pc = "idle"
    /\ ops < MaxOps
    /\ selectedPatternKey' = key
    /\ currentStep' = 0
    /\ IF isPlaying
       THEN reprimeClock /\ newEpoch("pattern")
       ELSE UNCHANGED << nextNoteTime, host, epoch >>
    /\ ops' = ops + 1
    /\ Did("pattern")
    /\ UNCHANGED << isPlaying, bpm, timeSignature, audio,
                    pending, clock, poll, dup, sentMax, stopped >>
    /\ UNCHANGED << examined, patterns, command >>

\* ---------------------------------------------------------------- poll
\* the interval of a live timer elapses: the host queues its tick
timerDue(t) ==
    /\ pc = "idle"
    /\ t \in timers \ due
    /\ due' = due \cup {t}
    /\ UNCHANGED << isPlaying, params, cursor, audio, pending, clock, timers,
                    nextTimer, intervalId, poll, last, epoch, dup,
                    sentMax, stopped,
                    budget >>
    /\ UNCHANGED << examined, patterns, command >>

\* _scheduler, line 422: the queued tick of a live timer runs
schedulerBegin(t) ==
    /\ pc = "idle"
    /\ t \in due
    /\ due' = due \ {t}
    /\ pc' = "polling"
    /\ now' = clock
    /\ ticking' = t
    /\ pollCount' = 0
    /\ Did("poll")
    /\ UNCHANGED << isPlaying, params, cursor, audio, pending, clock, timers,
                    nextTimer, intervalId, epoch, dup,
                    sentMax, stopped, budget >>
    /\ UNCHANGED << examined, patterns, command >>

\* variant: the window is this.lookahead (25.0, milliseconds) read as seconds
windowOpen_lookahead == nextNoteTime < now + 1000 * lookahead

\* the while condition of _scheduler, line 423
windowOpen == nextNoteTime < now + scheduleAheadTime

\* the calls that reach scheduleSound when call number `fail` throws (0: none
\* throws); with no engine the first property access throws a TypeError
callsMade(planned, fail) ==
    IF audioEngine = "null" THEN << >>
    ELSE IF fail = 0 THEN planned
    ELSE SubSeq(planned, 1, fail)

\* the history of a step: the calls made, each with the number of its visit
logged(made) ==
    /\ log' = log \cup { << visits, made[i] >> : i \in DOMAIN made }
    /\ dup' = (dup \/ \E i \in DOMAIN made : << visits, made[i] >> \in log)
    /\ sentMax' = IF made = << >> THEN sentMax ELSE Max(sentMax, made[1].t)
    /\ pollCount' = pollCount + Len(made)

\* variant: the advance of nextNoteTime sits inside the try, after the call,
\* and is lost when the call throws
_scheduleNext_advanceInTry(fail) ==
    LET planned == plannedCalls(pat, currentStep, nextNoteTime, soundTypes)
        made == callsMade(planned, fail)
    IN  /\ fail \in 0 .. Len(planned)
        /\ fail > 0 => (ops < MaxOps /\ audioEngine # "null")
        /\ logged(made)
        /\ skipped' = skipped + Len(planned) - Len(made)
        /\ ops' = IF fail > 0 THEN ops + 1 ELSE ops
        /\ nextNoteTime' = IF fail > 0 THEN nextNoteTime
                           ELSE nextNoteTime + stepDur(pat, timeSignature, bpm)
        /\ currentStep' = (currentStep + 1) % modulus(pat)
        /\ visits' = visits + 1
        /\ UNCHANGED << pc, now, ticking >>

\* variant: currentStep is incremented without the modulus
_scheduleNext_noModulus(fail) ==
    LET planned == plannedCalls(pat, currentStep, nextNoteTime, soundTypes)
        made == callsMade(planned, fail)
    IN  /\ fail \in 0 .. Len(planned)
        /\ fail > 0 => (ops < MaxOps /\ audioEngine # "null")
        /\ logged(made)
        /\ skipped' = skipped + Len(planned) - Len(made)
        /\ ops' = IF fail > 0 THEN ops + 1 ELSE ops
        /\ nextNoteTime' = nextNoteTime + stepDur(pat, timeSignature, bpm)
        /\ currentStep' = currentStep + 1
        /\ visits' = visits + 1
        /\ UNCHANGED << pc, now, ticking >>

\* variant: the next event is timed from the poll's clock reading, not from
\* the previous event
_scheduleNext_fromNow(fail) ==
    LET planned == plannedCalls(pat, currentStep, nextNoteTime, soundTypes)
        made == callsMade(planned, fail)
    IN  /\ fail \in 0 .. Len(planned)
        /\ fail > 0 => (ops < MaxOps /\ audioEngine # "null")
        /\ logged(made)
        /\ skipped' = skipped + Len(planned) - Len(made)
        /\ ops' = IF fail > 0 THEN ops + 1 ELSE ops
        /\ nextNoteTime' = Max(now, nextNoteTime)
                              + stepDur(pat, timeSignature, bpm)
        /\ currentStep' = (currentStep + 1) % modulus(pat)
        /\ visits' = visits + 1
        /\ UNCHANGED << pc, now, ticking >>

\* one iteration of the loop: _scheduleNext, both branches; the try/catch
\* swallows a throw, and the cursor advances either way. With a key that is
\* not in the catalog pat is undefined and pat.kind (line 433, outside the
\* try) throws a TypeError that leaves _scheduleNext and _scheduler.
_scheduleNext(fail) ==
    IF selectedPatternKey \notin DOMAIN patterns
    THEN /\ fail = 0
         /\ pc' = "idle"
         /\ ticking' = 0
         /\ UNCHANGED << cursor, visits, log, skipped, dup,
                         sentMax, pollCount, now,
                         ops >>
    ELSE
    LET planned == plannedCalls(pat, currentStep, nextNoteTime, soundTypes)
        made == callsMade(planned, fail)
    IN  /\ fail \in 0 .. Len(planned)
        /\ fail > 0 => (ops < MaxOps /\ audioEngine # "null")
        /\ logged(made)
        /\ skipped' = skipped + Len(planned) - Len(made)
        /\ ops' = IF fail > 0 THEN ops + 1 ELSE ops
        /\ nextNoteTime' = nextNoteTime + stepDur(pat, timeSignature, bpm)
        /\ currentStep' = (currentStep + 1) % modulus(pat)
        /\ visits' = visits + 1
        /\ UNCHANGED << pc, now, ticking >>

schedulerStep(fail) ==
    /\ pc = "polling"
    /\ windowOpen
    \* a loop that cannot leave is followed for MaxSpin iterations
    /\ (selectedPatternKey \in DOMAIN patterns
          /\ stepDur(pat, timeSignature, bpm) <= 0) => visits < MaxSpin
    /\ _scheduleNext(fail)
    /\ UNCHANGED << isPlaying, params, audio, pending, clock, host, last,
                    primeOp, primeTime, primeFrom, primeStep, stopped >>
    /\ UNCHANGED << examined, patterns, command >>

\* the loop's exit
schedulerEnd ==
    /\ pc = "polling"
    /\ ~windowOpen
    /\ pc' = "idle"
    /\ ticking' = 0
    /\ UNCHANGED << isPlaying, params, cursor, audio, pending, clock, host,
                    now, pollCount, last, epoch, dup,
                    sentMax, stopped, budget >>
    /\ UNCHANGED << examined, patterns, command >>

\* the audio clock moves on between two handlers
advanceClock(d) ==
    /\ pc = "idle"
    /\ audioContext = "running"
    /\ ops < MaxOps
    /\ clock' = clock + d
    /\ ops' = ops + 1
    /\ Did("clock")
    /\ UNCHANGED << isPlaying, params, cursor, audio, pending, host, poll,
                    epoch, dup, sentMax, stopped >>
    /\ UNCHANGED << examined, patterns, command >>

\* ------------------------------------------------------- specification
Next ==
    \/ \E r \in {"ok", "ctxThrows", "engineThrows"} : startCall(r)
    \/ \E r \in {"ok", "loadFails", "ctxThrows", "engineThrows"} : resumeLoad(r)
    \/ resumeDetect
    \/ \E ok \in BOOLEAN : resumeInit(ok)
    \/ stopCall
    \/ destroy
    \/ \E v \in BpmInputs : onBpmChange(v)
    \/ \E sig \in TimesigOptions : onTimesigChange(sig)
    \/ \E key \in PatternOptions : onPatternChange(key)
    \/ \E t \in timers : timerDue(t)
    \/ \E t \in due : schedulerBegin(t)
    \/ \E fail \in 0 .. 2 : schedulerStep(fail)
    \/ schedulerEnd
    \/ \E d \in ClockSteps : advanceClock(d)

Spec == Init /\ [][Next]_vars

\* -------------------------------------- preferences found in localStorage
\* the "rhyth_bpm" item the constructor may find: none, or a number written
\* by anything that shares the origin's storage
StoredBpmItems ==
    { [nan |-> FALSE, val |-> 0],
      [nan |-> FALSE, val |-> 600] }

\* the "rhyth_pattern" item the constructor may find: none, or a key that
\* the catalog of this version does not hold
StoredPatternItems == { "", "waltz" }

\* the "rhyth_timesig" item the constructor may find: none, or an object
\* whose numerator is 0
StoredTimesigItems ==
    { NoTimesigItem,
      [none |-> FALSE, numerator |-> 0, denominator |-> 4] }

InitStored ==
    /\ \E b \in StoredBpmItems, p \in StoredPatternItems,
          sig \in StoredTimesigItems : constructor(b, p, sig)
    /\ notExamined

SpecStored == InitStored /\ [][Next]_vars

\* ------------------------------------- the earlier version of the module
\* start() of the earlier version: no script loader, no try/catch; r is what
\* the two constructors do (Soundonika.Engine is a ReferenceError when the
\* script is not on the page)
startCallV1(r) ==
    /\ pc = "idle"
    /\ ops < MaxOps
    /\ ops' = ops + 1
    /\ IF audioContext = "none"
       THEN /\ CASE r = "ctxThrows" ->
                      /\ Did("startFailed")
                      /\ UNCHANGED << audioContext, audioEngine, pending >>
                 [] r = "engineThrows" \/ ~Soundonika ->
                      /\ audioContext' = "running"
                      /\ Did("startFailed")
                      /\ UNCHANGED << audioEngine, pending >>
                 [] OTHER ->
                      /\ audioContext' = "running"
                      /\ audioEngine' = "new"
                      /\ pending' = [pending EXCEPT !.init = @ + 1]
                      /\ Did("startAwait")
            /\ UNCHANGED << isPlaying, cursor, host, epoch >>
       ELSE /\ r = "ok"
            /\ enterPlaying
            /\ UNCHANGED << audioContext, audioEngine, pending >>
    /\ UNCHANGED << params, Soundonika, clock, poll, dup, sentMax, stopped >>
    /\ command' = "start"
    /\ UNCHANGED << examined, patterns >>

\* audioEngine.init() settles; a rejection ends the call
resumeInitV1(ok) ==
    /\ pc = "idle"
    /\ pending.init > 0
    /\ pending' = [pending EXCEPT !.init = @ - 1]
    /\ IF ok
       THEN /\ enterPlaying
            /\ audioEngine' = "ready"
            /\ UNCHANGED << audioContext, Soundonika >>
       ELSE /\ Did("startFailed")
            /\ UNCHANGED << isPlaying, cursor, audio, host, epoch >>
    /\ UNCHANGED << params, clock, poll, dup, sentMax, stopped, budget >>
    /\ UNCHANGED << examined, patterns, command >>

\* one iteration of the loop in the earlier version: no try/catch, so a
\* throwing call leaves _scheduleNext and _scheduler before the cursor moves
_scheduleNextV1(fail) ==
    LET planned == plannedCalls(pat, currentStep, nextNoteTime, soundTypesV1)
    IN  IF audioEngine = "null" /\ planned # << >>
        THEN /\ fail = 0
             /\ pc' = "idle"
             /\ ticking' = 0
             /\ UNCHANGED << cursor, visits, log, skipped, dup,
                             sentMax, pollCount,
                             now, ops >>
        ELSE /\ fail \in 0 .. Len(planned)
             /\ fail > 0 => ops < MaxOps
             /\ logged(IF fail = 0 THEN planned ELSE SubSeq(planned, 1, fail))
             /\ IF fail = 0
                THEN /\ nextNoteTime' =
                            nextNoteTime + stepDur(pat, timeSignature, bpm)
                     /\ currentStep' = (currentStep + 1) % modulus(pat)
                     /\ visits' = visits + 1
                     /\ UNCHANGED << pc, now, ticking, ops, skipped >>
                ELSE /\ pc' = "idle"
                     /\ ticking' = 0
                     /\ ops' = ops + 1
                     /\ UNCHANGED << cursor, visits, now, skipped >>

schedulerStepV1(fail) ==
    /\ pc = "polling"
    /\ windowOpen
    /\ _scheduleNextV1(fail)
    /\ UNCHANGED << isPlaying, params, audio, pending, clock, host, last,
                    primeOp, primeTime, primeFrom, primeStep, stopped >>
    /\ UNCHANGED << examined, patterns, command >>

NextV1 ==
    \/ \E r \in {"ok", "ctxThrows", "engineThrows"} : startCallV1(r)
    \/ \E ok \in BOOLEAN : resumeInitV1(ok)
    \/ stopCall
    \/ \E v \in BpmInputs : onBpmChange(v)
    \/ \E sig \in TimesigOptions : onTimesigChange(sig)
    \/ \E key \in PatternOptions : onPatternChange(key)
    \/ \E t \in timers : timerDue(t)
    \/ \E t \in due : schedulerBegin(t)
    \/ \E fail \in 0 .. 2 : schedulerStepV1(fail)
    \/ schedulerEnd
    \/ \E d \in ClockSteps : advanceClock(d)

SpecV1 == Init /\ [][NextV1]_vars

\* ------------------------------------- the polyrhythm branch on its own
\* a polyrhythm of counts a and b, with the gains of the catalogued one
polyOf(a, b) ==
    [kind |-> "poly", gridA |-> [count |-> a, gain |-> 28],
                      gridB |-> [count |-> b, gain |-> 20]]

InitPoly ==
    /\ constructor([nan |-> FALSE, val |-> 0], "", NoTimesigItem)
    /\ countA \in 1 .. MaxCount
    /\ countB \in 1 .. MaxCount
    /\ tick = -1
    /\ fired = << >>
    /\ ticksA = {}
    /\ ticksB = {}
    /\ AudioEngine("")

\* the ticks of the cycle so far at which a call of the given kind was made
firedTicks(kind, soFar, k, calls) ==
    (IF k = 0 THEN {} ELSE soFar)
       \cup (IF \E i \in DOMAIN calls : calls[i].kind = kind THEN {k} ELSE {})

\* the poly branch of _scheduleNext applied to the next tick of the cycle,
\* the first one being tick 0 as after a start
polyTick ==
    /\ tick' = (tick + 1) % _lcm(countA, countB)
    /\ fired' = plannedCalls(polyOf(countA, countB), tick', nextNoteTime,
                             soundTypes)
    /\ ticksA' = firedTicks("polyA", ticksA, tick', fired')
    /\ ticksB' = firedTicks("polyB", ticksB, tick', fired')
    /\ UNCHANGED << countA, countB >>
    /\ UNCHANGED engine
    /\ UNCHANGED transport

NextPoly == polyTick

SpecPoly == InitPoly /\ [][NextPoly]_vars

\* ------------------------------------------------------ the AudioEngine
\* a load of pass p is still awaiting its fetch, body or decoding
inFlight(p) == \E t \in SampleTypes : loads[p][t] = "fetching"

\* the passes with a load in flight
passesInFlight == { p \in Passes : inFlight(p) }

\* variant: loadSamples() without the isLoading guard
loadSamples_noGuard ==
    /\ nextPass \in Passes
    /\ isLoading' = TRUE
    /\ loadingPromise' = nextPass
    /\ promises' = [promises EXCEPT ![nextPass] = "pending"]
    /\ loads' = [loads EXCEPT ![nextPass] = [t \in SampleTypes |-> "fetching"]]
    /\ nextPass' = nextPass + 1
    /\ lastLoad' = [busy |-> isLoading, started |-> Cardinality(SampleTypes),
                    returned |-> nextPass,
                    inFlight |-> IF passesInFlight = {} THEN 0
                                 ELSE CHOOSE p \in passesInFlight : TRUE]

\* loadSamples() up to its await: with a load running it returns the promise
\* of that load; otherwise it sets isLoading, and _loadSamplesInternal calls
\* _loadSample for every entry of sampleConfig, each of which starts a fetch
loadSamples ==
    IF isLoading
    THEN /\ lastLoad' = [busy |-> TRUE, started |-> 0,
                         returned |-> loadingPromise,
                         inFlight |-> IF passesInFlight = {} THEN 0
                                      ELSE CHOOSE p \in passesInFlight : TRUE]
         /\ UNCHANGED << isLoading, loadingPromise, promises, loads,
                         nextPass >>
    ELSE /\ nextPass \in Passes
         /\ isLoading' = TRUE
         /\ loadingPromise' = nextPass
         /\ promises' = [promises EXCEPT ![nextPass] = "pending"]
         /\ loads' = [loads EXCEPT
                         ![nextPass] = [t \in SampleTypes |-> "fetching"]]
         /\ nextPass' = nextPass + 1
         /\ lastLoad' = [busy |-> FALSE,
                         started |-> Cardinality(SampleTypes),
                         returned |-> nextPass, inFlight |-> 0]

\* a call on the engine is one event of its environment
engineCall ==
    /\ engineOps < MaxEngineOps
    /\ engineOps' = engineOps + 1

\* a direct call of loadSamples()
loadSamplesCall ==
    /\ engineCall
    /\ loadSamples
    /\ UNCHANGED << soundMode, samples, rendered >>
    /\ UNCHANGED << polyrhythm, transport >>

\* init(): loads when the mode is 'samples' and no sample is held
init ==
    /\ engineCall
    /\ IF soundMode = "samples" /\ samples = {}
       THEN loadSamples
       ELSE UNCHANGED << isLoading, loadingPromise, promises, loads,
                         nextPass, lastLoad >>
    /\ UNCHANGED << soundMode, samples, rendered >>
    /\ UNCHANGED << polyrhythm, transport >>

\* setSoundMode(mode): nothing when the mode is the current one; otherwise
\* the mode is set, and samples are loaded when none is held
setSoundMode(mode) ==
    /\ engineCall
    /\ IF mode = soundMode
       THEN UNCHANGED << soundMode, isLoading, loadingPromise, promises,
                         loads, nextPass, lastLoad >>
       ELSE /\ soundMode' = mode
            /\ IF mode = "samples" /\ samples = {}
               THEN loadSamples
               ELSE UNCHANGED << isLoading, loadingPromise, promises, loads,
                                 nextPass, lastLoad >>
    /\ UNCHANGED << samples, rendered >>
    /\ UNCHANGED << polyrhythm, transport >>

\* _loadSample of pass p settles for one sample: the buffer is stored, or
\* the response is not ok or a step throws, and false is returned. When it
\* is the last of the pass, Promise.all and _loadSamplesInternal resolve and
\* the loadSamples() call that started the pass runs its finally, all in
\* the same turn of the event loop.
loadSettles(p, t, ok) ==
    /\ p \in Passes
    /\ loads[p][t] = "fetching"
    /\ samples' = IF ok THEN samples \cup {t} ELSE samples
    /\ LET after == [loads[p] EXCEPT ![t] = IF ok THEN "loaded" ELSE "failed"]
       IN  IF \E u \in SampleTypes : after[u] = "fetching"
           THEN /\ loads' = [loads EXCEPT ![p] = after]
                /\ UNCHANGED << isLoading, promises >>
           ELSE /\ loads' = [loads EXCEPT
                               ![p] = [u \in SampleTypes |-> "idle"]]
                /\ promises' = [promises EXCEPT ![p] = "fulfilled"]
                /\ isLoading' = FALSE
    /\ UNCHANGED << soundMode, loadingPromise, nextPass, lastLoad, rendered,
                    engineOps >>
    /\ UNCHANGED << polyrhythm, transport >>

\* _scheduleClick: one oscillator, started at the time given, its gain
\* scaled by the velocity
_scheduleClick(time, soundType, velocity) ==
    << [as |-> "click", time |-> time, velocity |-> velocity,
        sound |-> soundType] >>

\* variant: with no buffer for the sample, _scheduleSample just returns
_scheduleSample_noFallback(time, soundType, velocity) ==
    LET sampleType == _mapSoundTypeToSample(soundType)
    IN  IF sampleType \notin samples
        THEN << >>
        ELSE << [as |-> "sample", time |-> time, velocity |-> velocity,
                 sound |-> sampleType] >>

\* _scheduleSample: the buffer of the mapped sample, started at the time
\* given, or a click when the Map holds no buffer for it
_scheduleSample(time, soundType, velocity) ==
    LET sampleType == _mapSoundTypeToSample(soundType)
    IN  IF sampleType \notin samples
        THEN _scheduleClick(time, soundType, velocity)
        ELSE << [as |-> "sample", time |-> time, velocity |-> velocity,
                 sound |-> sampleType] >>

\* scheduleSound(time, soundType, velocity)
scheduleSound(time, soundType, velocity) ==
    /\ engineCall
    /\ rendered' =
          [time |-> time, soundType |-> soundType, velocity |-> velocity,
           mode |-> soundMode,
           buffer |-> _mapSoundTypeToSample(soundType) \in samples,
           out |-> IF soundMode = "clicks"
                   THEN _scheduleClick(time, soundType, velocity)
                   ELSE _scheduleSample(time, soundType, velocity)]
    /\ UNCHANGED << soundMode, samples, isLoading, loadingPromise, promises,
                    loads, nextPass, lastLoad >>
    /\ UNCHANGED << polyrhythm, transport >>

\* the "rhyth_sound_mode" item the constructor may find: none, or 'samples'
StoredSoundModes == { "", "samples" }

\* a sound type and the velocities (in tenths) Rhythonika passes, and a
\* sound type the engine does not know
SoundTypeInputs == { "kick", "cowbell" }
VelocityInputs == { 7, 10 }

InitEngine ==
    /\ constructor([nan |-> FALSE, val |-> 0], "", NoTimesigItem)
    /\ countA = patterns["polyrhythm-32"].gridA.count
    /\ countB = patterns["polyrhythm-32"].gridB.count
    /\ tick = -1
    /\ fired = << >>
    /\ ticksA = {}
    /\ ticksB = {}
    /\ Soundonika
    /\ \E item \in StoredSoundModes : AudioEngine(item)

NextEngine ==
    \/ init
    \/ loadSamplesCall
    \/ \E mode \in {"clicks", "samples"} : setSoundMode(mode)
    \/ \E p \in Passes, t \in SampleTypes, ok \in BOOLEAN :
          loadSettles(p, t, ok)
    \/ \E soundType \in SoundTypeInputs, velocity \in VelocityInputs :
          scheduleSound(LEAD_IN, soundType, velocity)

SpecEngine == InitEngine /\ [][NextEngine]_vars

\* ------------------------------------------------------------ fairness
\* The host fires the tick of a live interval timer, the event loop runs a
\* queued tick, and a running _scheduler call runs on until it returns or
\* throws: JavaScript does not pre-empt it.
FairSpec ==
    /\ Spec
    /\ WF_vars(\E t \in timers : timerDue(t))
    /\ WF_vars(\E t \in due : schedulerBegin(t))
    /\ WF_vars(\E fail \in 0 .. 2 : schedulerStep(fail))
    /\ WF_vars(schedulerEnd)

FairSpecV1 ==
    /\ SpecV1
    /\ WF_vars(\E t \in timers : timerDue(t))
    /\ WF_vars(\E t \in due : schedulerBegin(t))
    /\ WF_vars(\E fail \in 0 .. 2 : schedulerStepV1(fail))
    /\ WF_vars(schedulerEnd)

\* --------------------------------------------------------- properties
Range(seq) == { seq[i] : i \in DOMAIN seq }

dur == stepDur(pat, timeSignature, bpm)

\* the calls the k-th step after the last reprime makes when nothing throws,
\* from the reprime and the parameters alone
expectedCalls(k) ==
    Range(plannedCalls(pat, (primeStep + k) % modulus(pat),
                       primeTime + LEAD_IN + k * dur, soundTypes))

\* the model's time unit divides every duration the run computes
DurationsExact == stepDurExact(pat, timeSignature, bpm)

\* C1: once stop() has returned, the timer that was running is cancelled: it
\* is neither live nor queued, also when its tick was already due, and no
\* poll runs for it; while the transport is stopped no timer is live, so
\* polls run again only for a timer that a start() entering Playing creates.
C1_StopCancelsTimer ==
    /\ stopped \cap (timers \cup due) = {}
    /\ pc = "polling" => ticking \notin stopped
    /\ ~isPlaying => (timers = {} /\ pc = "idle")

\* stop() has just run on a playing transport whose tick was already queued
C1_Witness ==
    /\ last.op = "stop"
    /\ last.playing
    /\ last.due
    /\ stopped # {}

\* C2: right after the bpm change handler has run on a playing transport,
\* currentStep = 0.
C2_TempoChangeResetsStep ==
    (last.op = "bpm" /\ last.playing) => currentStep = 0

\* C3: a time-signature or pattern change on a playing transport leaves it
\* Playing with currentStep = 0, nextNoteTime = clock + LEAD_IN and a live
\* timer, and the first call made afterwards is the one of step 0 of the
\* selected pattern, timed clock-at-the-change + LEAD_IN.
C3_ChangeReprimes ==
    /\ (last.op \in {"timesig", "pattern"} /\ last.playing) =>
          /\ isPlaying
          /\ currentStep = 0
          /\ nextNoteTime = clock + LEAD_IN
          /\ intervalId \in timers
    /\ (isPlaying /\ primeOp \in {"timesig", "pattern"} /\ log # {}) =>
          /\ \E e \in log : e[1] = 0
          /\ \A e \in log : e[1] = 0 =>
                /\ e[2].step = 0
                /\ e[2].t = primeTime + LEAD_IN
                /\ e[2] \in Range(plannedCalls(pat, 0, primeTime + LEAD_IN,
                                               soundTypes))

\* the pattern was changed while playing at a step other than 0, and calls
\* were made since
C3_Witness ==
    /\ isPlaying
    /\ primeOp = "pattern"
    /\ primeFrom # 0
    /\ log # {}

\* C4: every start() that enters Playing leaves currentStep = 0 and
\* nextNoteTime = clock + LEAD_IN, and the first call made after it is for
\* step 0 with that timestamp.
C4_StartPrimes ==
    /\ last.op = "start" =>
          /\ isPlaying
          /\ currentStep = 0
          /\ nextNoteTime = clock + LEAD_IN
    /\ (isPlaying /\ primeOp = "start" /\ log # {}) =>
          /\ \E e \in log : e[1] = 0
          /\ \A e \in log : e[1] = 0 =>
                (e[2].step = 0 /\ e[2].t = primeTime + LEAD_IN)

\* a start() after a stop(), from a cursor that was not at step 0, and calls
\* were made since
C4_Witness ==
    /\ isPlaying
    /\ primeOp = "start"
    /\ primeFrom # 0
    /\ stopped # {}
    /\ log # {}

\* C5: every call a poll makes carries a timestamp strictly below that poll's
\* now + scheduleAheadTime.
C5_WithinWindow ==
    [][\A e \in log' \ log : e[2].t < now + scheduleAheadTime]_vars

\* a poll has made several calls, one of them timed after its now
C5_Witness ==
    /\ pc = "polling"
    /\ pollCount > 1
    /\ \E e \in log : e[2].t > now

\* C6: no scheduleSound call is made twice for the same step visit (same
\* step, kind and timestamp), in either version, also when a call throws.
C6_NoDuplicateDispatch == ~dup

\* C7: one poll makes at most CatchUpCap calls, however long the clock
\* stalled before it.
C7_CatchUpBounded == pollCount <= CatchUpCap

\* C8: currentStep is a natural number below the modulus of the selected
\* pattern.
C8_StepBelowModulus == currentStep \in 0 .. (modulus(pat) - 1)

\* the cursor has gone round the pattern and stands on its last step
C8_Witness ==
    /\ isPlaying
    /\ visits > modulus(pat)
    /\ currentStep = modulus(pat) - 1

\* C9 as stated: no step of a poll and no tempo, signature or pattern change
\* made while the transport is Playing makes nextNoteTime smaller (a start()
\* that primes a playing transport again is left aside).
C9_NeverDecreases ==
    [][(isPlaying /\ isPlaying' /\ last'.op # "start") =>
          nextNoteTime' >= nextNoteTime]_vars

\* C9 as amended: while Playing, every step the poll processes advances
\* nextNoteTime by exactly the positive duration of that step, and every
\* action that is not a reprime (which sets it to clock + LEAD_IN) leaves it
\* as it was.
C9_AdvancesByStep ==
    [][(isPlaying /\ isPlaying') =>
          /\ visits' = visits + 1 =>
                (dur > 0 /\ nextNoteTime' = nextNoteTime + dur)
          /\ nextTimer' # nextTimer =>
                nextNoteTime' = clock + LEAD_IN
          /\ (visits' = visits /\ nextTimer' = nextTimer) =>
                nextNoteTime' = nextNoteTime]_vars

\* steps were processed after a tempo change had reprimed a playing transport
C9_Witness ==
    /\ isPlaying
    /\ primeOp = "bpm"
    /\ visits > 1

\* C10: while Playing, the cursor and every call made since the last reprime
\* are functions of the reprime (its clock and step), the parameters and the
\* number of the step alone: the k-th step is timed
\* primeTime + LEAD_IN + k * dur, whenever the polls ran, and as long as no
\* call was lost to a throw the step just processed has made all its calls.
C10_NoDrift ==
    isPlaying =>
       /\ nextNoteTime = primeTime + LEAD_IN + visits * dur
       /\ currentStep = (primeStep + visits) % modulus(pat)
       /\ \A e \in log : e[1] < visits /\ e[2] \in expectedCalls(e[1])
       /\ (visits > 0 /\ skipped = 0) =>
             \A c \in expectedCalls(visits - 1) : << visits - 1, c >> \in log

\* steps were processed by a poll that ran late, after one that ran on time
C10_Witness ==
    /\ isPlaying
    /\ visits > 2
    /\ pc = "polling"
    /\ now > primeTime + lookahead
    /\ \E e \in log : e[2].t < now

\* C11: the selected key always names a catalog entry, from the constructor
\* on, so that no poll runs with an undefined pattern.
C11_PollHasPattern ==
    pc = "polling" => selectedPatternKey \in DOMAIN patterns

\* C12: the tempo a poll computes with lies in [20, 400], also when it is
\* the value the constructor restored.
C12_TempoInRange ==
    pc = "polling" => bpm \in BpmMin .. BpmMax

\* C13: a bpm change event whose value is not a number, empty or 0 leaves the
\* stored tempo and the cursor (currentStep, nextNoteTime) as they were.
C13_InvalidTempoRejected ==
    [][\A v \in { w \in BpmInputs : w.nan \/ w.val = 0 } :
          onBpmChange(v) => (bpm' = bpm /\ UNCHANGED cursor)]_vars

\* C14: when a scheduleSound call throws, every other call planned for the
\* same step is still made, the cursor advances as for a successful step and
\* the loop goes on.
C14_OnlyThrowingEventLost ==
    [][(visits' = visits + 1 /\ audioEngine # "null") =>
          /\ skipped' = skipped
          /\ nextNoteTime' = nextNoteTime + dur
          /\ currentStep' = (currentStep + 1) % modulus(pat)
          /\ pc' = "polling"]_vars

\* C15: the transport never stalls: whenever it is Playing and nextNoteTime
\* is not ahead of the audio clock, the polls bring nextNoteTime ahead of
\* that clock value again (or the transport is stopped), also when calls of
\* scheduleSound fail, in either version.
C15_NeverStalls ==
    (isPlaying /\ nextNoteTime <= clock) ~>
        (~isPlaying \/ nextNoteTime > clock)

\* C16: a tempo, time-signature or pattern change made while the transport is
\* Stopped leaves it Stopped: nextNoteTime and the host's timers are as they
\* were, no timer is live or queued, and no call is made.
C16_StoppedChangeNoReprime ==
    [][(~isPlaying /\ ops' = ops + 1
          /\ last'.op \in {"bpm", "timesig", "pattern"}) =>
          /\ ~isPlaying'
          /\ UNCHANGED << nextNoteTime, host, log, visits, pollCount >>
          /\ timers' = {} /\ due' = {} /\ pc' = "idle"]_vars

\* a control was changed on a transport that had played and was stopped
C16_Witness ==
    /\ last.op \in {"bpm", "timesig", "pattern"}
    /\ ~last.playing
    /\ ~isPlaying
    /\ stopped # {}
    /\ nextNoteTime > 0

\* C17: when a start() call has failed before entering Playing, the transport
\* is Stopped: isPlaying is false and no timer is live or queued.
C17_FailedStartLeavesStopped ==
    last.op = "startFailed" =>
        (~isPlaying /\ timers = {} /\ due = {})

\* C18: at most one interval timer is live, it is the one intervalId names,
\* and one is live exactly when isPlaying is true; a queued tick belongs to a
\* live timer.
C18_OneTimerIffPlaying ==
    /\ Cardinality(timers) <= 1
    /\ timers \subseteq {intervalId}
    /\ due \subseteq timers
    /\ (timers # {}) <=> isPlaying

\* start() was called on a transport that was already Playing, after an
\* earlier timer had been replaced
C18_Witness ==
    /\ last.op = "start"
    /\ last.playing
    /\ isPlaying
    /\ nextTimer > 2
    /\ timers # {}

\* the kinds of the calls made at the k-th step since the last reprime
kindsAt(k) == { e[2].kind : e \in { x \in log : x[1] = k } }

\* C19: the catalogued polyrhythm has a cycle of 6 ticks, and the calls made
\* per tick are: tick 0 one for grid A and one for grid B, tick 3 grid A
\* only, ticks 2 and 4 grid B only, ticks 1 and 5 none.
C19_PolyrhythmTicks ==
    (isPlaying /\ selectedPatternKey = "polyrhythm-32" /\ skipped = 0) =>
       /\ modulus(pat) = 6
       /\ \A k \in 0 .. (visits - 1) :
             kindsAt(k) =
                CASE (primeStep + k) % 6 = 0 -> {"polyA", "polyB"}
                  [] (primeStep + k) % 6 = 3 -> {"polyA"}
                  [] (primeStep + k) % 6 \in {2, 4} -> {"polyB"}
                  [] OTHER -> {}

\* a whole cycle of the polyrhythm was processed and the next has begun
C19_Witness ==
    /\ isPlaying
    /\ selectedPatternKey = "polyrhythm-32"
    /\ skipped = 0
    /\ visits > 6

\* C20: for all counts a, b >= 1 of the two grids, tick 0 of the cycle meets
\* both tick conditions: the calls planned for it are one for grid A and one
\* for grid B, with the same timestamp.
C20_TickZeroFiresBoth ==
    tick = 0 =>
       /\ Len(fired) = 2
       /\ fired[1].kind = "polyA"
       /\ fired[2].kind = "polyB"
       /\ fired[1].t = fired[2].t

\* tick 0 was processed again, after a whole cycle, for counts that are not
\* coprime
C20_Witness ==
    /\ tick = 0
    /\ fired # << >>
    /\ countA = 4
    /\ countB = 6

\* C21: for the counts a, b >= 1 examined, _lcm(a, b) * gcd(a, b) = a * b
\* (so the division in _lcm is exact), _lcm(a, b) is a positive multiple of
\* a and of b, and _lcm(2, 3) = 6.
C21_LcmTimesGcd ==
    /\ _lcm(countA, countB) * gcd(countA, countB) = countA * countB
    /\ (countA * countB) % gcd(countA, countB) = 0
    /\ _lcm(countA, countB) > 0
    /\ _lcm(countA, countB) % countA = 0
    /\ _lcm(countA, countB) % countB = 0
    /\ _lcm(2, 3) = 6

\* the last tick of the cycle _lcm gives for counts that are not coprime
C21_Witness ==
    /\ countA = 6
    /\ countB = 4
    /\ tick = _lcm(countA, countB) - 1
    /\ tick = 11

\* C22: with a grid pattern every processed step makes exactly one call: an
\* accent with velocity 1.0 when accents[step mod slotsPerBar] is set, a
\* normal event with velocity 0.7 otherwise; with "basic" the accent falls on
\* step 0 of the bar only.
C22_GridOneEventPerStep ==
    (isPlaying /\ selectedPatternKey \in DOMAIN patterns
       /\ pat.kind = "grid" /\ skipped = 0) =>
       /\ \A k \in 0 .. (visits - 1) : \E e \in log : e[1] = k
       /\ \A e1, e2 \in log : e1[1] = e2[1] => e1 = e2
       /\ \A e \in log :
             LET slot == ((primeStep + e[1]) % pat.slotsPerBar) + 1
             IN  /\ e[2].step = slot - 1
                 /\ IF pat.accents[slot] = 1
                    THEN e[2].kind = "accent"
                         /\ e[2].vel = [num |-> 10, den |-> 10]
                    ELSE e[2].kind = "normal"
                         /\ e[2].vel = [num |-> 7, den |-> 10]
                 /\ selectedPatternKey = "basic" =>
                       (e[2].kind = "accent" <=> e[2].step = 0)

\* more than a bar of an eight-slot accent pattern was processed
C22_Witness ==
    /\ isPlaying
    /\ selectedPatternKey = "accent-323"
    /\ skipped = 0
    /\ visits > 8

\* C23: one cycle spans one bar: the step duration times the modulus is
\* numerator * 60 / bpm, and after every whole number of cycles since the
\* last reprime currentStep is back at its starting value and nextNoteTime
\* has advanced by that many bars; at 120 bpm in 4/4 a slot of "basic" lasts
\* 0.5 s and the bar of the polyrhythm 2.0 s.
C23_CycleSpansBar ==
    (isPlaying /\ selectedPatternKey \in DOMAIN patterns) =>
       LET m == modulus(pat)
           bar == (timeSignature.numerator * UnitsPerMinute) \div bpm
       IN  /\ (timeSignature.numerator * UnitsPerMinute) % bpm = 0
           /\ dur * m = bar
           /\ visits % m = 0 =>
                 /\ currentStep = primeStep
                 /\ nextNoteTime =
                       primeTime + LEAD_IN + (visits \div m) * bar
           /\ (bpm = 120 /\ timeSignature.numerator = 4) =>
                 /\ selectedPatternKey = "basic" => 2 * dur = UnitsPerSecond
                 /\ selectedPatternKey = "polyrhythm-32" =>
                       bar = 2 * UnitsPerSecond

\* exactly one cycle of the polyrhythm was processed since the reprime
C23_Witness ==
    /\ isPlaying
    /\ selectedPatternKey = "polyrhythm-32"
    /\ visits = modulus(pat)
    /\ nextNoteTime > primeTime + LEAD_IN

\* C24: every velocity handed to the engine lies in [0, 1]: 1.0 and 0.7 on
\* the grids, gain / 0.28 on the polyrhythm, which is 1 for stream A and
\* 5/7 for stream B.
C24_VelocityInUnitInterval ==
    /\ \A e \in log :
          /\ e[2].vel.den > 0
          /\ 0 <= e[2].vel.num
          /\ e[2].vel.num <= e[2].vel.den
          /\ e[2].kind = "polyA" => e[2].vel.num = e[2].vel.den
          /\ e[2].kind = "polyB" => 7 * e[2].vel.num = 5 * e[2].vel.den
    /\ \A key \in DOMAIN patterns :
          patterns[key].kind = "poly" =>
             /\ patterns[key].gridA.gain <= 28
             /\ patterns[key].gridB.gain <= 28

\* calls of both streams of the polyrhythm were made
C24_Witness ==
    /\ \E e \in log : e[2].kind = "polyA" /\ e[2].vel.num = e[2].vel.den
    /\ \E e \in log : e[2].kind = "polyB" /\ e[2].vel.num < e[2].vel.den

\* C25: every catalogued pattern is well-formed, and the catalog is the one
\* the constructor built: no start, stop, poll or setter modifies it.
C25_CatalogWellFormed ==
    /\ patterns = catalog
    /\ \A key \in DOMAIN patterns : wellFormed(patterns[key])

\* a setter ran while Playing, steps were processed, and the transport was
\* stopped again
C25_Witness ==
    /\ patterns = catalog
    /\ command = "stop"
    /\ ~isPlaying
    /\ timeSignature.numerator # 4
    /\ pollCount > 0

\* C26: the denominator of the time signature does not influence scheduling:
\* every processed step advances nextNoteTime by the duration computed with
\* any denominator in place of the current one, moves currentStep by one
\* modulo the modulus, and hands over the events planned from the pattern,
\* the step and the time alone.
C26_DenominatorIrrelevant ==
    [][(visits' = visits + 1 /\ selectedPatternKey \in DOMAIN patterns) =>
          /\ \A d \in Denominators :
                nextNoteTime' = nextNoteTime
                   + stepDur(pat, [numerator |-> timeSignature.numerator,
                                   denominator |-> d], bpm)
          /\ currentStep' = (currentStep + 1) % modulus(pat)
          /\ \A e \in log' \ log :
                e[2] \in Range(plannedCalls(pat, currentStep, nextNoteTime,
                                            soundTypes))]_vars

\* steps were processed in 6/8
C26_Witness ==
    /\ isPlaying
    /\ timeSignature.denominator = 8
    /\ visits > 1
    /\ pollCount > 1

\* C27: when stop() or destroy() is the most recent transport command and
\* every start() call has settled, the transport is Stopped: isPlaying is
\* false and no poll timer is armed.
C27_StopWins ==
    (command \in {"stop", "destroy"} /\ nPending = 0) =>
       (~isPlaying /\ timers = {})

\* C28: the transport is Playing only with an audio engine whose init() has
\* completed.
C28_PlayingHasReadyEngine ==
    isPlaying => audioEngine = "ready"

\* C29: whenever the poll's loop runs, the step duration is strictly
\* positive, so that nextNoteTime leaves the window after finitely many
\* steps; the preferences restored by the constructor included.
C29_StepDurationPositive ==
    (pc = "polling" /\ selectedPatternKey \in DOMAIN patterns) =>
       stepDur(pat, timeSignature, bpm) > 0

\* C30: for all counts a, b >= 1 examined, when the last of the lcm(a, b)
\* ticks of a cycle has been processed, grid A has fired exactly a times, on
\* the ticks 0, lcm/a, 2 lcm/a, ..., and grid B exactly b times, on the ticks
\* 0, lcm/b, 2 lcm/b, ...
C30_EvenlySpacedCounts ==
    LET lcmTicks == _lcm(countA, countB)
    IN  tick = lcmTicks - 1 =>
           /\ Cardinality(ticksA) = countA
           /\ Cardinality(ticksB) = countB
           /\ ticksA = { k * (lcmTicks \div countA) : k \in 0 .. (countA - 1) }
           /\ ticksB = { k * (lcmTicks \div countB) : k \in 0 .. (countB - 1) }

\* a whole cycle of 15 ticks was processed for the coprime counts 3 and 5
C30_Witness ==
    /\ countA = 3
    /\ countB = 5
    /\ tick = 14
    /\ ticksA = {0, 5, 10}
    /\ ticksB = {0, 3, 6, 9, 12}

\* C31: calls reach the engine in non-decreasing order of their times: after
\* a tempo, time-signature or pattern change has reprimed a playing
\* transport, no call is made with a time earlier than that of a call made
\* before.
C31_TimestampsNonDecreasing ==
    [][(primeOp \in {"bpm", "timesig", "pattern"}) =>
          (\A e \in log' \ log : e[2].t >= sentMax)]_vars

\* C32: in the AudioEngine at most one sample-loading pass is in flight: a
\* loadSamples() call made while a load is running starts no fetch and
\* returns the promise of the running load, and isLoading is true exactly
\* while a load of the pass of loadingPromise is in flight, whether the
\* loads succeed or fail.
C32_OneLoadInFlight ==
    /\ Cardinality(passesInFlight) <= 1
    /\ isLoading <=> passesInFlight # {}
    /\ isLoading => passesInFlight = {loadingPromise}
    /\ \A p \in Passes : promises[p] = "pending" <=> inFlight(p)
    /\ lastLoad.busy =>
          /\ lastLoad.started = 0
          /\ lastLoad.inFlight # 0
          /\ lastLoad.returned = lastLoad.inFlight

\* loadSamples() was called while a load was running, and the pass has
\* settled since, some samples loaded and some failed
C32_Witness ==
    /\ lastLoad.busy
    /\ ~isLoading
    /\ promises[1] = "fulfilled"
    /\ samples # {}
    /\ samples # SampleTypes

====
